---- MODULE Spec2Model ----
(***************************************************************************)
(* pypd.models.incident.Incident: the request-building and validation      *)
(* rules of every incident operation.  A state holds the handle (id,       *)
(* endpoint, api_key), the transport's invocation count, and the most      *)
(* recent call: its operation, its arguments, the exchanges it made with   *)
(* the transport and how it ended.                                         *)
(***************************************************************************)
EXTENDS Integers, Sequences, FiniteSets, TLC

VARIABLES id, endpoint, api_key, call_count, ncalls, last

vars == <<id, endpoint, api_key, call_count, ncalls, last>>

(* ------------------------------ bounds --------------------------------- *)
\* calls made on one handle in a behaviour
MaxCalls == 2
\* longest list of ids passed to an operation
MaxIds == 2

(* --------------------------- Python values ----------------------------- *)
\* A Python value: its type t, and the payload of that type (s for str and
\* for an Entity's id, n for int, l for the elements of a list).
None_ == [t |-> "NoneType", s |-> "", n |-> 0, l |-> <<>>]
PyStr(x) == [t |-> "str", s |-> x, n |-> 0, l |-> <<>>]
PyInt(k) == [t |-> "int", s |-> "", n |-> k, l |-> <<>>]
PyList(q) == [t |-> "list", s |-> "", n |-> 0, l |-> q]
EntityObj(ident) == [t |-> "Entity", s |-> ident, n |-> 0, l |-> <<>>]

\* isinstance(v, six.string_types)
isinstance_string_types(v) == v.t = "str"

\* isinstance(v, list)
isinstance_list(v) == v.t = "list"

\* isinstance(v, Entity)
isinstance_Entity(v) == v.t = "Entity"

\* Python truth value, as tested by `if v:` and `a or b`
Truthy(v) ==
    CASE v.t = "NoneType" -> FALSE
      [] v.t = "str" -> v.s /= ""
      [] v.t = "int" -> v.n /= 0
      [] v.t = "list" -> v.l /= <<>>
      [] OTHER -> TRUE

\* mutant: any() where all() was meant
any_string_types(v) == \E i \in 1..Len(v.l) : isinstance_string_types(v.l[i])

\* all([isinstance(i, six.string_types) for i in v])
all_string_types(v) == \A i \in 1..Len(v.l) : isinstance_string_types(v.l[i])

\* mutant: only None is rejected, the type is not looked at
bad_from_email_none_only(from_email) == from_email = None_

\* `from_email is None or not isinstance(from_email, six.string_types)`
bad_from_email(from_email) ==
    from_email = None_ \/ ~isinstance_string_types(from_email)

\* sep.join(parts)
RECURSIVE Join(_, _)
Join(sep, parts) ==
    IF parts = <<>> THEN ""
    ELSE IF Len(parts) = 1 THEN Head(parts)
    ELSE Head(parts) \o sep \o Join(sep, Tail(parts))

\* json.dumps of a bool
json_dumps(b) == IF b THEN "true" ELSE "false"

\* entity['id']
getitem_id(entity) == PyStr(entity.s)

(* ------------------------------ inputs --------------------------------- *)
SeqsUpTo(S, k) == UNION {[1..m -> S] : m \in 0..k}

Ids == {"PT4KHLK"}
Endpoints == {"incidents"}
ApiKeys == {"key"}

FromEmails == {None_, PyInt(7), PyStr("me@example.com")}
Resolutions == {None_, PyStr("fixed")}
UserIdArgs ==
    {None_, PyStr(""), PyStr("U1")}
        \cup {PyList(q) : q \in SeqsUpTo({PyStr("U1"), PyStr("U2")}, MaxIds)}
        \cup {PyList(<<PyStr("U1"), PyInt(7)>>)}
PolicyIdArgs ==
    {None_, PyStr(""), PyStr("E1")}
        \cup {PyList(q) : q \in SeqsUpTo({PyStr("E1"), PyStr("E2")}, MaxIds)}
        \cup {PyList(<<PyInt(7), PyStr("E1")>>)}
PolicyIds == {None_, PyInt(7), PyStr("E1")}
Titles == {None_, PyInt(7), PyStr("new title")}
Durations == {PyInt(3600)}
Contents == {PyStr("note")}
SourceIncidents ==
    {None_} \cup {PyList(q) : q \in SeqsUpTo({PyStr("I1"), EntityObj("I2")}, MaxIds)}
RequesterIds == {PyStr("R1")}
Messages == {PyStr("msg")}
UpdateArgs == {PyList(<<>>), PyList(<<PyStr("x")>>)}
UpdateKwargs == {PyList(<<>>), PyList(<<PyStr("title")>>)}
TimeZones == {PyStr("UTC")}
Includes == {None_, PyList(<<PyStr("channels")>>)}

\* what the transport answers: a parsed result, or a transport-level error
Returned(v) == [kind |-> "return", value |-> v]
Raised(k, v) == [kind |-> k, value |-> v]
Responses ==
    {Returned(PyStr("r1")), Returned(PyStr("r2")), Raised("TransportError", None_)}

(* ----------------------------- transport ------------------------------- *)
NotGiven == "<not given>"

\* Entity.request(method, endpoint=, add_headers=, data=)
request(method, endpoint_, add_headers, data) ==
    [via |-> "request", cls |-> "Incident", method |-> method,
     endpoint |-> endpoint_, add_headers |-> add_headers, data |-> data]

\* Entity.create(endpoint=, api_key=, add_headers=, data_key=, data=, method=)
create(cls, endpoint_, api_key_, add_headers, data_key, data, method) ==
    [via |-> "create", cls |-> cls,
     method |-> IF method = NotGiven THEN "POST" ELSE method,
     endpoint |-> endpoint_, api_key |-> api_key_, add_headers |-> add_headers,
     data |-> IF data_key = NotGiven THEN data ELSE [k \in {data_key} |-> data]]

\* Entity.find(endpoint=, api_key=, **params)
find(cls, endpoint_, api_key_, params) ==
    [via |-> "find", cls |-> cls, method |-> "GET", endpoint |-> endpoint_,
     api_key |-> api_key_, params |-> params]

(* ------------------------- how a call ends ----------------------------- *)
\* One call of a method: the exchanges it made with the transport and its
\* outcome (a returned value or a raised error).
Finish(op, args, sent, outcome) ==
    /\ ncalls < MaxCalls
    /\ last' = [op |-> op, args |-> args, sent |-> sent, outcome |-> outcome]
    /\ call_count' = call_count + Len(sent)
    /\ ncalls' = ncalls + 1
    /\ UNCHANGED <<id, endpoint, api_key>>

\* `raise Kind(value)` before anything was dispatched
Raise(op, args, kind, value) == Finish(op, args, <<>>, Raised(kind, value))

\* mutant: a call repeating the previous one is answered from a cache
DispatchCached(op, args, envelope) ==
    IF last.op = op /\ last.args = args /\ last.sent /= <<>>
    THEN Finish(op, args, <<>>, last.outcome)
    ELSE \E response \in Responses :
             Finish(op, args, <<[call |-> envelope, response |-> response]>>,
                    response)

\* `return transport(...)`: one exchange; the transport's result is returned
\* and a transport error propagates unchanged
Dispatch(op, args, envelope) ==
    \E response \in Responses :
        Finish(op, args, <<[call |-> envelope, response |-> response]>>, response)

(* ----------------------------- operations ------------------------------ *)
\* mutant: the resolution is nested inside the incident object
resolve_data_nested(resolution) ==
    IF resolution /= None_
    THEN [incident |-> [type |-> "incident", status |-> "resolved",
                        resolution |-> resolution]]
    ELSE [incident |-> [type |-> "incident", status |-> "resolved"]]

\* the body of a resolve request
resolve_data(resolution) ==
    LET incident == [type |-> "incident", status |-> "resolved"]
    IN  IF resolution /= None_
        THEN [incident |-> incident, resolution |-> resolution]
        ELSE [incident |-> incident]

resolve(from_email, resolution) ==
    LET args == [from_email |-> from_email, resolution |-> resolution]
    IN  IF bad_from_email(from_email)
        THEN Raise("resolve", args, "MissingFromEmail", from_email)
        ELSE LET endpoint_ == Join("/", <<endpoint, id>>)
                 add_headers == [from |-> from_email]
                 data == resolve_data(resolution)
             IN  Dispatch("resolve", args,
                          request("PUT", endpoint_, add_headers, data))

acknowledge(from_email) ==
    LET args == [from_email |-> from_email]
        endpoint_ == Join("/", <<endpoint, id>>)
    IN  IF bad_from_email(from_email)
        THEN Raise("acknowledge", args, "MissingFromEmail", from_email)
        ELSE LET add_headers == [from |-> from_email]
                 data == [incident |->
                            [type |-> "incident", status |-> "acknowledged"]]
             IN  Dispatch("acknowledge", args,
                          request("PUT", endpoint_, add_headers, data))

\* mutant: user_ids is validated before from_email
reassign_user_ids_first(from_email, user_ids) ==
    LET args == [from_email |-> from_email, user_ids |-> user_ids]
        endpoint_ == Join("/", <<endpoint, id>>)
    IN  IF user_ids = None_ \/ ~isinstance_list(user_ids)
        THEN Raise("reassign", args, "InvalidArguments", user_ids)
        ELSE IF ~all_string_types(user_ids)
        THEN Raise("reassign", args, "InvalidArguments", user_ids)
        ELSE IF bad_from_email(from_email)
        THEN Raise("reassign", args, "MissingFromEmail", from_email)
        ELSE LET assignees ==
                     [i \in 1..Len(user_ids.l) |->
                        [assignee |->
                           [id |-> user_ids.l[i], type |-> "user_reference"]]]
                 add_headers == [from |-> from_email]
                 data == [incident |->
                            [type |-> "incident", assignments |-> assignees]]
             IN  Dispatch("reassign", args,
                          request("PUT", endpoint_, add_headers, data))

reassign(from_email, user_ids) ==
    LET args == [from_email |-> from_email, user_ids |-> user_ids]
        endpoint_ == Join("/", <<endpoint, id>>)
    IN  IF bad_from_email(from_email)
        THEN Raise("reassign", args, "MissingFromEmail", from_email)
        ELSE IF user_ids = None_ \/ ~isinstance_list(user_ids)
        THEN Raise("reassign", args, "InvalidArguments", user_ids)
        ELSE IF ~all_string_types(user_ids)
        THEN Raise("reassign", args, "InvalidArguments", user_ids)
        ELSE LET assignees ==
                     [i \in 1..Len(user_ids.l) |->
                        [assignee |->
                           [id |-> user_ids.l[i], type |-> "user_reference"]]]
                 add_headers == [from |-> from_email]
                 data == [incident |->
                            [type |-> "incident", assignments |-> assignees]]
             IN  Dispatch("reassign", args,
                          request("PUT", endpoint_, add_headers, data))

\* the `users` / `esclation_policies` comprehension of add_responders
responder_request_targets(ids, type) ==
    [i \in 1..Len(ids.l) |->
       [responder_request_target |-> [id |-> ids.l[i], type |-> type]]]

\* mutant: the escalation-policy targets are put first
responders_policies_first(user_ids, escalation_policy_ids) ==
    LET users ==
            IF Truthy(user_ids)
            THEN responder_request_targets(user_ids, "user_reference")
            ELSE <<>>
        esclation_policies ==
            IF Truthy(escalation_policy_ids)
            THEN responder_request_targets(escalation_policy_ids,
                                           "escalation_policy_reference")
            ELSE <<>>
    IN  esclation_policies \o users

\* `responders`: [] += users (if user_ids) += esclation_policies (if
\* escalation_policy_ids)
responders_of(user_ids, escalation_policy_ids) ==
    LET users ==
            IF Truthy(user_ids)
            THEN responder_request_targets(user_ids, "user_reference")
            ELSE <<>>
        esclation_policies ==
            IF Truthy(escalation_policy_ids)
            THEN responder_request_targets(escalation_policy_ids,
                                           "escalation_policy_reference")
            ELSE <<>>
    IN  users \o esclation_policies

add_responders(from_email, requester_id, message, user_ids, escalation_policy_ids) ==
    LET args == [from_email |-> from_email, requester_id |-> requester_id,
                 message |-> message, user_ids |-> user_ids,
                 escalation_policy_ids |-> escalation_policy_ids]
        endpoint_ == Join("/", <<endpoint, id, "responder_requests">>)
    IN  IF bad_from_email(from_email)
        THEN Raise("add_responders", args, "MissingFromEmail", from_email)
        ELSE IF ~(Truthy(user_ids) \/ Truthy(escalation_policy_ids))
        THEN Raise("add_responders", args, "InvalidArguments",
                   PyStr("Need at least one target to be supplied"))
        ELSE IF Truthy(user_ids) /\ ~isinstance_list(user_ids)
        THEN Raise("add_responders", args, "InvalidArguments", user_ids)
        ELSE IF Truthy(user_ids) /\ ~all_string_types(user_ids)
        THEN Raise("add_responders", args, "InvalidArguments", user_ids)
        ELSE IF Truthy(escalation_policy_ids)
                /\ ~isinstance_list(escalation_policy_ids)
        THEN Raise("add_responders", args, "InvalidArguments",
                   escalation_policy_ids)
        ELSE IF Truthy(escalation_policy_ids)
                /\ ~all_string_types(escalation_policy_ids)
        THEN Raise("add_responders", args, "InvalidArguments",
                   escalation_policy_ids)
        ELSE LET responders == responders_of(user_ids, escalation_policy_ids)
                 add_headers == [from |-> from_email]
                 data == [requester_id |-> requester_id, message |-> message,
                          responder_request_targets |-> responders]
             IN  Dispatch("add_responders", args,
                          request("POST", endpoint_, add_headers, data))

reassign_escalation_policy(from_email, escalation_policy_id) ==
    LET args == [from_email |-> from_email,
                 escalation_policy_id |-> escalation_policy_id]
        endpoint_ == Join("/", <<endpoint, id>>)
    IN  IF bad_from_email(from_email)
        THEN Raise("reassign_escalation_policy", args, "MissingFromEmail",
                   from_email)
        ELSE IF escalation_policy_id = None_
                \/ ~isinstance_string_types(escalation_policy_id)
        THEN Raise("reassign_escalation_policy", args, "InvalidArguments",
                   escalation_policy_id)
        ELSE LET add_headers == [from |-> from_email]
                 data == [incident |->
                            [type |-> "incident",
                             escalation_policy |->
                               [id |-> escalation_policy_id,
                                type |-> "escalation_policy_reference"]]]
             IN  Dispatch("reassign_escalation_policy", args,
                          request("PUT", endpoint_, add_headers, data))

rename(from_email, title) ==
    LET args == [from_email |-> from_email, title |-> title]
        endpoint_ == Join("/", <<endpoint, id>>)
    IN  IF bad_from_email(from_email)
        THEN Raise("rename", args, "MissingFromEmail", from_email)
        ELSE IF title = None_ \/ ~isinstance_string_types(title)
        THEN Raise("rename", args, "InvalidArguments", title)
        ELSE LET add_headers == [from |-> from_email]
                 data == [incident |-> [type |-> "incident", title |-> title]]
             IN  Dispatch("rename", args,
                          request("PUT", endpoint_, add_headers, data))

log_entries(time_zone, is_overview, include, fetch_all) ==
    LET args == [time_zone |-> time_zone, is_overview |-> is_overview,
                 include |-> include, fetch_all |-> fetch_all]
        endpoint_ == Join("/", <<endpoint, id, "log_entries">>)
        base == [time_zone |-> time_zone,
                 is_overview |-> json_dumps(is_overview),
                 fetch_all |-> fetch_all]
        query_params ==
            IF Truthy(include)
            THEN [time_zone |-> time_zone,
                  is_overview |-> json_dumps(is_overview),
                  fetch_all |-> fetch_all, include |-> include]
            ELSE base
    IN  Dispatch("log_entries", args,
                 find("LogEntry", endpoint_, api_key, query_params))

\* mutant: the generic update hook of the base entity is not suppressed
update_generic(args_, kwargs) ==
    Dispatch("update", [args |-> args_, kwargs |-> kwargs],
             request("PUT", Join("/", <<endpoint, id>>), <<>>, kwargs))

\* `raise NotImplemented`: NotImplemented is no exception, so the raise
\* statement itself fails with TypeError
update(args_, kwargs) ==
    Raise("update", [args |-> args_, kwargs |-> kwargs], "TypeError", None_)

notes ==
    LET endpoint_ == Join("/", <<endpoint, id, "notes">>)
    IN  Dispatch("notes", <<>>,
                 find("Note", endpoint_, api_key, <<>>))

create_note(from_email, content) ==
    LET args == [from_email |-> from_email, content |-> content]
    IN  IF bad_from_email(from_email)
        THEN Raise("create_note", args, "MissingFromEmail", from_email)
        ELSE LET endpoint_ == Join("/", <<endpoint, id, "notes">>)
                 add_headers == [from |-> from_email]
             IN  Dispatch("create_note", args,
                          create("Note", endpoint_, api_key, add_headers,
                                 NotGiven, [content |-> content], NotGiven))

snooze(from_email, duration) ==
    LET args == [from_email |-> from_email, duration |-> duration]
    IN  IF bad_from_email(from_email)
        THEN Raise("snooze", args, "MissingFromEmail", from_email)
        ELSE LET endpoint_ == Join("/", <<endpoint, id, "snooze">>)
                 add_headers == [from |-> from_email]
             IN  Dispatch("snooze", args,
                          create("Incident", endpoint_, api_key, add_headers,
                                 "duration", duration, NotGiven))

\* mutant: entities are passed through without taking their id
incident_references_raw(source_incidents) ==
    [i \in 1..Len(source_incidents.l) |->
       [type |-> "incident_reference", id |-> source_incidents.l[i]]]

\* the two comprehensions of merge: ids, then references
incident_references(source_incidents) ==
    LET incident_ids ==
            [i \in 1..Len(source_incidents.l) |->
               IF isinstance_Entity(source_incidents.l[i])
               THEN getitem_id(source_incidents.l[i])
               ELSE source_incidents.l[i]]
    IN  [i \in 1..Len(incident_ids) |->
           [type |-> "incident_reference", id |-> incident_ids[i]]]

\* mutant: method='PUT' is not passed to create
merge_default_method(from_email, source_incidents) ==
    LET args == [from_email |-> from_email,
                 source_incidents |-> source_incidents]
    IN  IF bad_from_email(from_email)
        THEN Raise("merge", args, "MissingFromEmail", from_email)
        ELSE IF ~isinstance_list(source_incidents)
        THEN Raise("merge", args, "TypeError", source_incidents)
        ELSE LET add_headers == [from |-> from_email]
                 endpoint_ == Join("/", <<endpoint, id, "merge">>)
             IN  Dispatch("merge", args,
                          create("Incident", endpoint_, api_key, add_headers,
                                 "source_incidents",
                                 incident_references(source_incidents),
                                 NotGiven))

\* iterating a source_incidents that is no list (None) fails with TypeError
\* before anything is dispatched
merge(from_email, source_incidents) ==
    LET args == [from_email |-> from_email,
                 source_incidents |-> source_incidents]
    IN  IF bad_from_email(from_email)
        THEN Raise("merge", args, "MissingFromEmail", from_email)
        ELSE IF ~isinstance_list(source_incidents)
        THEN Raise("merge", args, "TypeError", source_incidents)
        ELSE LET add_headers == [from |-> from_email]
                 endpoint_ == Join("/", <<endpoint, id, "merge">>)
             IN  Dispatch("merge", args,
                          create("Incident", endpoint_, api_key, add_headers,
                                 "source_incidents",
                                 incident_references(source_incidents),
                                 "PUT"))

alerts ==
    LET endpoint_ == Join("/", <<endpoint, id, "alerts">>)
    IN  Dispatch("alerts", <<>>,
                 find("Alert", endpoint_, api_key, <<>>))

Init ==
    /\ id \in Ids
    /\ endpoint \in Endpoints
    /\ api_key \in ApiKeys
    /\ call_count = 0
    /\ ncalls = 0
    /\ last = [op |-> "none", args |-> <<>>, sent |-> <<>>,
               outcome |-> Returned(None_)]

Next ==
    \/ \E f \in FromEmails, r \in Resolutions : resolve(f, r)
    \/ \E f \in FromEmails : acknowledge(f)
    \/ \E f \in FromEmails, u \in UserIdArgs : reassign(f, u)
    \/ \E f \in FromEmails, r \in RequesterIds, m \in Messages,
          u \in UserIdArgs, e \in PolicyIdArgs : add_responders(f, r, m, u, e)
    \/ \E f \in FromEmails, e \in PolicyIds : reassign_escalation_policy(f, e)
    \/ \E f \in FromEmails, t \in Titles : rename(f, t)
    \/ \E z \in TimeZones, o \in BOOLEAN, i \in Includes, a \in BOOLEAN :
          log_entries(z, o, i, a)
    \/ \E a \in UpdateArgs, k \in UpdateKwargs : update(a, k)
    \/ notes
    \/ \E f \in FromEmails, c \in Contents : create_note(f, c)
    \/ \E f \in FromEmails, d \in Durations : snooze(f, d)
    \/ \E f \in FromEmails, s \in SourceIncidents : merge(f, s)
    \/ alerts

Spec == Init /\ [][Next]_vars

(* ===================== vocabulary of the properties ===================== *)
Mutating ==
    {"resolve", "acknowledge", "reassign", "reassign_escalation_policy",
     "rename", "snooze", "merge", "add_responders", "create_note"}
Readers == {"log_entries", "notes", "alerts"}

StringValued(v) == v.t = "str"
ListOfStrings(v) == v.t = "list" /\ \A i \in DOMAIN v.l : v.l[i].t = "str"
Provided(v) == v.t /= "NoneType"
NonEmpty(v) == (v.t = "list" /\ Len(v.l) > 0) \/ (v.t = "str" /\ v.s /= "")
\* the ids a target argument names: those of the list, none when it is None
IdsOf(v) == IF v.t = "list" THEN v.l ELSE <<>>

\* the argument, besides from_email, that the operation validates is invalid
OtherArgumentInvalid ==
    \/ last.op = "reassign" /\ ~ListOfStrings(last.args.user_ids)
    \/ /\ last.op = "add_responders"
       /\ \/ ~(NonEmpty(last.args.user_ids)
               \/ NonEmpty(last.args.escalation_policy_ids))
          \/ Provided(last.args.user_ids)
             /\ last.args.user_ids.t /= "list"
          \/ Provided(last.args.escalation_policy_ids)
             /\ last.args.escalation_policy_ids.t /= "list"
    \/ /\ last.op = "reassign_escalation_policy"
       /\ ~StringValued(last.args.escalation_policy_id)
    \/ last.op = "rename" /\ ~StringValued(last.args.title)

\* the target arguments of add_responders are as the contract wants them:
\* each None or a list of strings, one of them non-empty
ValidTargets ==
    /\ ~Provided(last.args.user_ids) \/ ListOfStrings(last.args.user_ids)
    /\ \/ ~Provided(last.args.escalation_policy_ids)
       \/ ListOfStrings(last.args.escalation_policy_ids)
    /\ \/ NonEmpty(last.args.user_ids)
       \/ NonEmpty(last.args.escalation_policy_ids)

\* the arguments of the last call pass the validation its table row lists
\* (update and merge list none besides from_email)
PassesValidation ==
    /\ last.op \in Mutating => StringValued(last.args.from_email)
    /\ last.op = "reassign" => ListOfStrings(last.args.user_ids)
    /\ last.op = "add_responders" => ValidTargets
    /\ last.op = "reassign_escalation_policy"
           => StringValued(last.args.escalation_policy_id)
    /\ last.op = "rename" => StringValued(last.args.title)

Suffix(op) ==
    CASE op = "add_responders" -> "/responder_requests"
      [] op = "snooze" -> "/snooze"
      [] op = "merge" -> "/merge"
      [] op = "create_note" -> "/notes"
      [] OTHER -> ""
Verb(op) ==
    IF op \in {"add_responders", "snooze", "create_note"} THEN "POST" ELSE "PUT"

(* ============================== properties ============================== *)
\* C1: a call of one of the nine mutating operations whose from_email is None
\* or is not a string ends in MissingFromEmail carrying the passed value, and
\* the call made no exchange with the transport.
C1_MissingFromEmail ==
    (last.op \in Mutating /\ ~StringValued(last.args.from_email))
        => /\ last.outcome = Raised("MissingFromEmail", last.args.from_email)
           /\ last.sent = <<>>

C1_Witness ==
    /\ last.op = "merge"
    /\ last.args.from_email = PyInt(7)
    /\ last.outcome.kind = "MissingFromEmail"
    /\ ncalls = 2 /\ call_count = 1

\* C2: when from_email is invalid and the operation's other validated
\* argument is invalid too, the outcome is MissingFromEmail, never
\* InvalidArguments.
C2_FromEmailCheckedFirst ==
    (last.op \in Mutating /\ ~StringValued(last.args.from_email)
     /\ OtherArgumentInvalid)
        => /\ last.outcome.kind = "MissingFromEmail"
           /\ last.outcome.kind /= "InvalidArguments"

C2_Witness ==
    /\ last.op = "reassign"
    /\ last.args.from_email = None_
    /\ last.args.user_ids = PyStr("U1")
    /\ last.outcome.kind = "MissingFromEmail"

\* C3 as stated: every call of an operation other than the three read
\* accessors whose arguments pass validation makes exactly one exchange and
\* ends as the transport answered.
C3_AsStated ==
    (last.op \notin Readers \cup {"none"} /\ PassesValidation)
        => Len(last.sent) = 1 /\ last.outcome = last.sent[1].response

\* C3 amended: every call of one of the nine mutating operations whose
\* arguments pass validation (for merge: whose source_incidents is a list)
\* makes exactly one exchange and ends as the transport answered, and it
\* raises the transport's invocation count by exactly one whatever was
\* called before, the same call included.
C3_OneRequestPerValidMutation ==
    /\ [](( /\ last.op \in Mutating
            /\ PassesValidation
            /\ last.op = "merge" => last.args.source_incidents.t = "list")
          => Len(last.sent) = 1 /\ last.outcome = last.sent[1].response)
    /\ [][( /\ ncalls' = ncalls + 1
            /\ last'.op \in Mutating
            /\ PassesValidation'
            /\ last'.op = "merge" => last'.args.source_incidents.t = "list")
          => call_count' = call_count + 1]_vars

C3_Witness ==
    /\ ncalls = 2 /\ call_count = 2
    /\ last.op = "rename" /\ last.args.title = PyStr("new title")
    /\ Len(last.sent) = 1
    /\ last.outcome = Returned(PyStr("r2"))

\* C4: every request dispatched by a mutating operation carries the header
\* from set to the call's from_email, the endpoint <endpoint>/<id>[/<suffix>]
\* of the operation, and the operation's verb.
C4_Envelope ==
    last.op \in Mutating
        => \A i \in DOMAIN last.sent :
              LET envelope == last.sent[i].call
              IN  /\ envelope.add_headers = [from |-> last.args.from_email]
                  /\ envelope.endpoint = endpoint \o "/" \o id \o Suffix(last.op)
                  /\ envelope.method = Verb(last.op)

C4_Witness ==
    /\ last.op = "merge"
    /\ Len(last.sent) = 1
    /\ last.sent[1].call.method = "PUT"
    /\ last.sent[1].call.endpoint = "incidents/PT4KHLK/merge"
    /\ last.sent[1].call.add_headers.from = PyStr("me@example.com")

\* C5: add_responders with a valid from_email raises InvalidArguments and
\* dispatches nothing unless one of user_ids and escalation_policy_ids is
\* non-empty, and also whenever a provided (non-None) one is not a list of
\* strings; it dispatches only when every provided one is a list of strings.
C5_TargetsValidated ==
    (last.op = "add_responders" /\ StringValued(last.args.from_email))
        => LET u == last.args.user_ids
               e == last.args.escalation_policy_ids
               rejected == /\ last.outcome.kind = "InvalidArguments"
                           /\ last.sent = <<>>
           IN  /\ ~(NonEmpty(u) \/ NonEmpty(e)) => rejected
               /\ ((Provided(u) /\ ~ListOfStrings(u))
                   \/ (Provided(e) /\ ~ListOfStrings(e))) => rejected
               /\ last.sent /= <<>>
                    => /\ Provided(u) => ListOfStrings(u)
                       /\ Provided(e) => ListOfStrings(e)

\* C6: in the body of a valid add_responders call, responder_request_targets
\* has one user_reference entry per id of user_ids, in order, followed by one
\* escalation_policy_reference entry per id of escalation_policy_ids, in
\* order; requester_id and message are carried unchanged.
C6_TargetsOrder ==
    (last.op = "add_responders" /\ StringValued(last.args.from_email)
     /\ ValidTargets)
        => /\ Len(last.sent) = 1
           /\ LET body == last.sent[1].call.data
                  targets == body.responder_request_targets
                  U == IdsOf(last.args.user_ids)
                  E == IdsOf(last.args.escalation_policy_ids)
              IN  /\ DOMAIN body
                       = {"requester_id", "message", "responder_request_targets"}
                  /\ body.requester_id = last.args.requester_id
                  /\ body.message = last.args.message
                  /\ Len(targets) = Len(U) + Len(E)
                  /\ \A i \in 1..Len(U) :
                        targets[i] = [responder_request_target |->
                                        [id |-> U[i], type |-> "user_reference"]]
                  /\ \A j \in 1..Len(E) :
                        targets[Len(U) + j]
                          = [responder_request_target |->
                               [id |-> E[j],
                                type |-> "escalation_policy_reference"]]

C6_Witness ==
    /\ last.op = "add_responders"
    /\ last.args.user_ids = PyList(<<PyStr("U2"), PyStr("U1")>>)
    /\ last.args.escalation_policy_ids = PyList(<<PyStr("E1"), PyStr("E2")>>)
    /\ Len(last.sent) = 1
    /\ Len(last.sent[1].call.data.responder_request_targets) = 4

\* C7: with a valid from_email, reassign with user_ids that is not a list of
\* strings, reassign_escalation_policy with an id that is not a string and
\* rename with a title that is not a string raise InvalidArguments carrying
\* the offending value, and dispatch nothing.
C7_InvalidArguments ==
    (last.op \in {"reassign", "reassign_escalation_policy", "rename"}
     /\ StringValued(last.args.from_email))
        => /\ (last.op = "reassign" /\ ~ListOfStrings(last.args.user_ids))
                => /\ last.outcome
                        = Raised("InvalidArguments", last.args.user_ids)
                   /\ last.sent = <<>>
           /\ (last.op = "reassign_escalation_policy"
               /\ ~StringValued(last.args.escalation_policy_id))
                => /\ last.outcome
                        = Raised("InvalidArguments",
                                 last.args.escalation_policy_id)
                   /\ last.sent = <<>>
           /\ (last.op = "rename" /\ ~StringValued(last.args.title))
                => /\ last.outcome = Raised("InvalidArguments", last.args.title)
                   /\ last.sent = <<>>

C7_Witness ==
    /\ last.op = "reassign"
    /\ last.args.from_email = PyStr("me@example.com")
    /\ last.args.user_ids = PyList(<<PyStr("U1"), PyInt(7)>>)
    /\ last.outcome.kind = "InvalidArguments"

\* C8: merge of a list mixing raw ids and entities dispatches a body whose
\* source_incidents has one incident_reference per input, in input order,
\* with the raw id itself or the entity's id.
C8_MergeReferences ==
    (last.op = "merge" /\ StringValued(last.args.from_email)
     /\ last.args.source_incidents.t = "list")
        => /\ Len(last.sent) = 1
           /\ LET body == last.sent[1].call.data
                  input == last.args.source_incidents.l
              IN  /\ DOMAIN body = {"source_incidents"}
                  /\ Len(body.source_incidents) = Len(input)
                  /\ \A i \in 1..Len(input) :
                        body.source_incidents[i]
                          = [type |-> "incident_reference",
                             id |-> IF input[i].t = "Entity"
                                    THEN PyStr(input[i].s)
                                    ELSE input[i]]

C8_Witness ==
    /\ last.op = "merge"
    /\ last.args.source_incidents = PyList(<<EntityObj("I2"), PyStr("I1")>>)
    /\ Len(last.sent) = 1
    /\ last.sent[1].call.data.source_incidents[1].id = PyStr("I2")
    /\ last.sent[1].call.data.source_incidents[2].id = PyStr("I1")

\* C9: update fails whatever its arguments, makes no exchange with the
\* transport, and leaves the handle's id, endpoint and api_key as they were.
C9_UpdateAlwaysFails ==
    /\ [](last.op = "update"
            => last.outcome.kind /= "return" /\ last.sent = <<>>)
    /\ [][(ncalls' = ncalls + 1 /\ last'.op = "update")
            => /\ UNCHANGED <<id, endpoint, api_key>>
               /\ call_count' = call_count]_vars

C9_Witness ==
    /\ last.op = "update"
    /\ last.args.args = PyList(<<PyStr("x")>>)
    /\ last.args.kwargs = PyList(<<PyStr("title")>>)
    /\ last.outcome.kind = "TypeError"
    /\ ncalls = 2 /\ call_count = 1

\* C10: the body of a resolve request maps incident to {type: incident,
\* status: resolved}; a given resolution is a top-level key beside incident,
\* never inside it, and without a resolution the body has no such key.
C10_ResolveBody ==
    (last.op = "resolve" /\ last.sent /= <<>>)
        => LET body == last.sent[1].call.data
           IN  /\ "incident" \in DOMAIN body
               /\ DOMAIN body.incident = {"type", "status"}
               /\ body.incident.type = "incident"
               /\ body.incident.status = "resolved"
               /\ last.args.resolution /= None_
                    => /\ DOMAIN body = {"incident", "resolution"}
                       /\ body.resolution = last.args.resolution
               /\ last.args.resolution = None_ => DOMAIN body = {"incident"}

C10_Witness ==
    /\ last.op = "resolve"
    /\ last.args.resolution = PyStr("fixed")
    /\ Len(last.sent) = 1
    /\ last.sent[1].call.data.resolution = PyStr("fixed")
====
